---- MODULE Spec2Model ----
(***************************************************************************)
(* The LS-8 emulator of ls8/cpu.py: class CPU, its ALU, its opcode         *)
(* handlers and the fetch-decode-dispatch loop of run().                   *)
(*                                                                         *)
(* Python semantics that the code relies on are modelled as they are:      *)
(*   - integers are unbounded (nothing in cpu.py masks a value to 8 bits); *)
(*   - a list index i of a list of length n is valid for -n <= i < n, a    *)
(*     negative index counting from the end, and raises IndexError else;   *)
(*   - the bare "except:" of run() catches every exception raised inside   *)
(*     the try, SystemExit included;                                       *)
(*   - an exception raised outside the try leaves run() (a traceback).     *)
(***************************************************************************)
EXTENDS Integers, Sequences, FiniteSets, TLC

(***************************************************************************)
(* Opcodes (cpu.py lines 6-45).                                            *)
(***************************************************************************)
ADD == 160
ADDI == 207
SUB == 161
MUL == 162
DIV == 163
MOD == 164
INC == 101
DEC == 102
CMP == 167
AND == 168
NOT == 105
OR == 170
XOR == 171
SHL == 172
SHR == 173
NOP == 0
HLT == 1
LDI == 130
LD == 131
ST == 132
PUSH == 69
POP == 70
PRN == 71
PRA == 72
CALL == 80
RET == 17
JMP == 84
JEQ == 85
JNE == 86

(***************************************************************************)
(* CPU.__init__: sizes and fixed indices.                                  *)
(***************************************************************************)
RamSize == 255
NumRegs == 8
NumFlags == 8
flag_lt == 5
flag_gt == 6
flag_equal == 7
stack_pointer == 7
InitialSP == 244

(***************************************************************************)
(* Bounds of the model.                                                    *)
(***************************************************************************)
\* Largest number of instructions of a generated program.
MaxProg == 2
\* Largest number of loop iterations explored.
MaxCycles == 8
\* Largest magnitude of a register value or of pc that is explored.
MaxVal == 1000

(***************************************************************************)
(* Python list indexing.                                                   *)
(***************************************************************************)
IndexOK(i, n) == i >= 0 - n /\ i < n

Norm(i, n) == IF i < 0 THEN i + n ELSE i

RegOK(i) == IndexOK(i, NumRegs)

RamOK(i) == IndexOK(i, RamSize)

R(i) == Norm(i, NumRegs)

M(i) == Norm(i, RamSize)

(***************************************************************************)
(* Python integer operators used by alu().                                 *)
(***************************************************************************)
\* x % y of Python (y /= 0): the result has the sign of the divisor.
PyMod(x, y) == IF y > 0 THEN x % y ELSE 0 - ((0 - x) % (0 - y))

\* x << n for x >= 0, n >= 0.  The doubling stops once the value is beyond
\* MaxVal: the exact result is then beyond MaxVal as well, and no state
\* with such a value is explored (see Explored).
RECURSIVE ShiftLeft(_, _)
ShiftLeft(x, n) == IF n = 0 \/ x > MaxVal \/ x = 0 THEN x ELSE ShiftLeft(2 * x, n - 1)

\* x >> n for x >= 0, n >= 0.
RECURSIVE ShiftRight(_, _)
ShiftRight(x, n) == IF n = 0 \/ x = 0 THEN x ELSE ShiftRight(x \div 2, n - 1)

\* The binary digits written least significant first.
RECURSIVE Bits_least_significant_first(_)
Bits_least_significant_first(n) ==
  IF n < 2 THEN <<IF n = 1 THEN "1" ELSE "0">>
  ELSE <<IF n % 2 = 1 THEN "1" ELSE "0">> \o Bits_least_significant_first(n \div 2)

\* bin(n) of Python, as the sequence of its characters.
RECURSIVE Bits(_)
Bits(n) == IF n < 2 THEN <<IF n = 1 THEN "1" ELSE "0">>
           ELSE Append(Bits(n \div 2), IF n % 2 = 1 THEN "1" ELSE "0")

\* str(n) of Python for an integer, as the sequence of its characters.
DigitChars == <<"0", "1", "2", "3", "4", "5", "6", "7", "8", "9">>

RECURSIVE Digits(_)
Digits(n) == IF n < 10 THEN <<DigitChars[n + 1]>>
             ELSE Append(Digits(n \div 10), DigitChars[(n % 10) + 1])

str(n) == IF n < 0 THEN <<"-">> \o Digits(0 - n) ELSE Digits(n)

bin(n) == IF n < 0 THEN <<"-", "0", "b">> \o Bits(0 - n) ELSE <<"0", "b">> \o Bits(n)

(***************************************************************************)
(* The machine while one instruction executes: the fields of the CPU       *)
(* object, what was printed, the exception in flight ("none" if none) and  *)
(* the list indices used on self.ram.                                      *)
(***************************************************************************)
Raise(m, e) == [m EXCEPT !.exc = e]

Line(kind, num, text) == [kind |-> kind, num |-> num, text |-> text]

print(m, line) == [m EXCEPT !.out = Append(@, line)]

SetReg(m, i, v) == [m EXCEPT !.reg[R(i)] = v]

\* self.ram[i] = v
StoreRam(m, i, v) ==
  IF RamOK(i) THEN [m EXCEPT !.ram[M(i)] = v, !.acc = @ \cup {i}]
  ELSE Raise([m EXCEPT !.acc = @ \cup {i}], "IndexError")

(***************************************************************************)
(* CPU.alu                                                                 *)
(***************************************************************************)
alu_ADD(m, a, b) ==
  IF ~RegOK(a) \/ ~RegOK(b) THEN Raise(m, "IndexError")
  ELSE SetReg(m, a, m.reg[R(a)] + m.reg[R(b)])

alu_MUL(m, a, b) ==
  IF ~RegOK(a) \/ ~RegOK(b) THEN Raise(m, "IndexError")
  ELSE SetReg(m, a, m.reg[R(a)] * m.reg[R(b)])

\* A CMP that records less-than one slot too low.
alu_CMP_wrong_slot(m, a, b) ==
  IF ~RegOK(a) \/ ~RegOK(b) THEN Raise(m, "IndexError")
  ELSE IF m.reg[R(a)] = m.reg[R(b)] THEN [m EXCEPT !.flags[flag_equal] = 1]
  ELSE IF m.reg[R(a)] < m.reg[R(b)] THEN [m EXCEPT !.flags[flag_lt - 1] = 1]
  ELSE [m EXCEPT !.flags[flag_gt] = 1]

alu_CMP(m, a, b) ==
  IF ~RegOK(a) \/ ~RegOK(b) THEN Raise(m, "IndexError")
  ELSE IF m.reg[R(a)] = m.reg[R(b)] THEN [m EXCEPT !.flags[flag_equal] = 1]
  ELSE IF m.reg[R(a)] < m.reg[R(b)] THEN [m EXCEPT !.flags[flag_lt] = 1]
  ELSE IF m.reg[R(a)] > m.reg[R(b)] THEN [m EXCEPT !.flags[flag_gt] = 1]
  ELSE [m EXCEPT !.flags[flag_lt] = 0, !.flags[flag_gt] = 0, !.flags[flag_equal] = 0]

\* reg[a] & reg[a]
alu_AND(m, a, b) ==
  IF ~RegOK(a) THEN Raise(m, "IndexError") ELSE SetReg(m, a, m.reg[R(a)])

\* reg[a] | reg[a]
alu_OR(m, a, b) ==
  IF ~RegOK(a) THEN Raise(m, "IndexError") ELSE SetReg(m, a, m.reg[R(a)])

\* reg[a] ^ reg[a]
alu_XOR(m, a, b) ==
  IF ~RegOK(a) THEN Raise(m, "IndexError") ELSE SetReg(m, a, 0)

\* ~reg[a]
alu_NOT(m, a, b) ==
  IF ~RegOK(a) THEN Raise(m, "IndexError") ELSE SetReg(m, a, 0 - m.reg[R(a)] - 1)

\* reg[a] << reg[a]; a negative shift count is a ValueError
alu_SHL(m, a, b) ==
  IF ~RegOK(a) THEN Raise(m, "IndexError")
  ELSE IF m.reg[R(a)] < 0 THEN Raise(m, "ValueError")
  ELSE SetReg(m, a, ShiftLeft(m.reg[R(a)], m.reg[R(a)]))

\* reg[a] >> reg[a]
alu_SHR(m, a, b) ==
  IF ~RegOK(a) THEN Raise(m, "IndexError")
  ELSE IF m.reg[R(a)] < 0 THEN Raise(m, "ValueError")
  ELSE SetReg(m, a, ShiftRight(m.reg[R(a)], m.reg[R(a)]))

\* A MOD without the test of the divisor: Python's % raises.
alu_MOD_unchecked(m, a, b) ==
  IF ~RegOK(a) \/ ~RegOK(b) THEN Raise(m, "IndexError")
  ELSE IF m.reg[R(b)] = 0 THEN Raise(m, "ZeroDivisionError")
  ELSE SetReg(m, a, PyMod(m.reg[R(a)], m.reg[R(b)]))

alu_MOD(m, a, b) ==
  IF ~RegOK(b) THEN Raise(m, "IndexError")
  ELSE IF m.reg[R(b)] = 0
       THEN Raise(print(m, Line("DivideByZero", 0, <<>>)), "SystemExit")
  ELSE IF ~RegOK(a) THEN Raise(m, "IndexError")
  ELSE SetReg(m, a, PyMod(m.reg[R(a)], m.reg[R(b)]))

alu(m, op, a, b) ==
  CASE op = "ADD" -> alu_ADD(m, a, b)
    [] op = "MUL" -> alu_MUL(m, a, b)
    [] op = "CMP" -> alu_CMP(m, a, b)
    [] op = "AND" -> alu_AND(m, a, b)
    [] op = "OR" -> alu_OR(m, a, b)
    [] op = "XOR" -> alu_XOR(m, a, b)
    [] op = "NOT" -> alu_NOT(m, a, b)
    [] op = "SHL" -> alu_SHL(m, a, b)
    [] op = "SHR" -> alu_SHR(m, a, b)
    [] op = "MOD" -> alu_MOD(m, a, b)
    [] OTHER -> Raise(m, "Exception")

(***************************************************************************)
(* Opcode handlers.  Each takes the three operand bytes run() fetched.     *)
(***************************************************************************)
handle_ADD(m, a, b, c) == alu(m, "ADD", a, b)

handle_SUB(m, a, b, c) == m

\* A HLT that leaves self.running set.
handle_HLT_keeps_running(m, a, b, c) == m

handle_HLT(m, a, b, c) == [m EXCEPT !.running = FALSE]

handle_LDI(m, a, b, c) ==
  IF ~RegOK(a) THEN Raise(m, "IndexError") ELSE SetReg(m, a, b)

\* A PRN that prints its operand instead of the register it names.
handle_PRN_prints_operand(m, a, b, c) ==
  IF ~RegOK(a) THEN Raise(m, "IndexError")
  ELSE print(m, Line("PRN", a, str(a)))

\* print(self.reg[operand_a]): the decimal text of the value
handle_PRN(m, a, b, c) ==
  IF ~RegOK(a) THEN Raise(m, "IndexError")
  ELSE print(m, Line("PRN", m.reg[R(a)], str(m.reg[R(a)])))

handle_MUL(m, a, b, c) == alu(m, "MUL", a, b)

handle_DIV(m, a, b, c) == m

handle_MOD(m, a, b, c) == alu(m, "MOD", a, b)

handle_INC(m, a, b, c) == m

handle_DEC(m, a, b, c) == m

handle_CMP(m, a, b, c) == alu(m, "CMP", a, b)

handle_AND(m, a, b, c) == alu(m, "AND", a, b)

handle_NOT(m, a, b, c) == alu(m, "NOT", a, b)

handle_OR(m, a, b, c) == alu(m, "OR", a, b)

handle_XOR(m, a, b, c) == alu(m, "XOR", a, b)

handle_SHL(m, a, b, c) == alu(m, "SHL", a, b)

handle_SHR(m, a, b, c) == alu(m, "SHR", a, b)

handle_NOP(m, a, b, c) == m

handle_LD(m, a, b, c) == m

handle_ST(m, a, b, c) == m

\* A PUSH that stores before it decrements the stack pointer.
handle_PUSH_store_first(m, a, b, c) ==
  IF ~RegOK(a) THEN Raise(m, "IndexError")
  ELSE LET m1 == StoreRam(m, m.reg[stack_pointer], m.reg[R(a)])
       IN IF m1.exc # "none" THEN m1 ELSE [m1 EXCEPT !.reg[stack_pointer] = @ - 1]

\* reg[7] -= 1, then ram[reg[7]] = reg[a] (the right-hand side is read first)
handle_PUSH(m, a, b, c) ==
  LET m1 == [m EXCEPT !.reg[stack_pointer] = @ - 1]
  IN IF ~RegOK(a) THEN Raise(m1, "IndexError")
     ELSE StoreRam(m1, m1.reg[stack_pointer], m1.reg[R(a)])

\* A POP that increments the stack pointer before it reads.
handle_POP_increment_first(m, a, b, c) ==
  LET sp == m.reg[stack_pointer] + 1
      m1 == [m EXCEPT !.acc = @ \cup {sp}, !.reg[stack_pointer] = sp]
  IN IF ~RamOK(sp) THEN Raise(m1, "IndexError")
     ELSE IF ~RegOK(a) THEN Raise(m1, "IndexError")
     ELSE SetReg(m1, a, m1.ram[M(sp)])

\* reg[a] = ram[reg[7]] (the right-hand side is read first), then reg[7] += 1
handle_POP(m, a, b, c) ==
  LET sp == m.reg[stack_pointer]
      m1 == [m EXCEPT !.acc = @ \cup {sp}]
  IN IF ~RamOK(sp) THEN Raise(m1, "IndexError")
     ELSE IF ~RegOK(a) THEN Raise(m1, "IndexError")
     ELSE LET m2 == SetReg(m1, a, m1.ram[M(sp)])
          IN [m2 EXCEPT !.reg[stack_pointer] = @ + 1]

handle_PRA(m, a, b, c) == m

\* A CALL that pushes the address of its own operand.
handle_CALL_off_by_one(m, a, b, c) ==
  LET return_addr == m.pc + 1
      m1 == [m EXCEPT !.reg[stack_pointer] = @ - 1]
      m2 == StoreRam(m1, m1.reg[stack_pointer], return_addr)
  IN IF m2.exc # "none" THEN m2
     ELSE IF ~RegOK(a) THEN Raise(m2, "IndexError")
     ELSE [m2 EXCEPT !.pc = m2.reg[R(a)]]

handle_CALL(m, a, b, c) ==
  LET return_addr == m.pc + 2
      m1 == [m EXCEPT !.reg[stack_pointer] = @ - 1]
      m2 == StoreRam(m1, m1.reg[stack_pointer], return_addr)
  IN IF m2.exc # "none" THEN m2
     ELSE IF ~RegOK(a) THEN Raise(m2, "IndexError")
     ELSE [m2 EXCEPT !.pc = m2.reg[R(a)]]

handle_RET(m, a, b, c) ==
  LET register == 0
      m1 == handle_POP(m, register, b, c)
  IN IF m1.exc # "none" THEN m1 ELSE [m1 EXCEPT !.pc = m1.reg[register]]

handle_JMP(m, register, b, c) ==
  IF ~RegOK(register) THEN Raise(m, "IndexError")
  ELSE [m EXCEPT !.pc = m.reg[R(register)]]

handle_JEQ(m, register, b, c) ==
  IF m.flags[flag_equal] = 1 THEN handle_JMP(m, register, b, c)
  ELSE [m EXCEPT !.pc = @ + 2]

\* A JNE that tests the flag as JEQ does.
handle_JNE_as_JEQ(m, register, b, c) ==
  IF m.flags[flag_equal] = 1 THEN handle_JMP(m, register, b, c)
  ELSE [m EXCEPT !.pc = @ + 2]

handle_JNE(m, register, b, c) ==
  IF m.flags[flag_equal] = 0 THEN handle_JMP(m, register, b, c)
  ELSE [m EXCEPT !.pc = @ + 2]

handle_ADDI(m, destination, register, data) ==
  IF ~RegOK(register) \/ ~RegOK(destination) THEN Raise(m, "IndexError")
  ELSE SetReg(m, destination, m.reg[R(register)] + data)

(***************************************************************************)
(* self.branchtable, built by CPU.__init__.                                *)
(***************************************************************************)
Opcodes ==
  {ADD, ADDI, SUB, MUL, DIV, MOD, INC, DEC, CMP, AND, NOT, OR, XOR, SHL, SHR,
   NOP, HLT, LDI, LD, ST, PUSH, POP, PRN, PRA, CALL, RET, JMP, JEQ, JNE}

branchtable(IR, m, a, b, c) ==
  CASE IR = ADD -> handle_ADD(m, a, b, c)
    [] IR = ADDI -> handle_ADDI(m, a, b, c)
    [] IR = SUB -> handle_SUB(m, a, b, c)
    [] IR = MUL -> handle_MUL(m, a, b, c)
    [] IR = DIV -> handle_DIV(m, a, b, c)
    [] IR = MOD -> handle_MOD(m, a, b, c)
    [] IR = INC -> handle_INC(m, a, b, c)
    [] IR = DEC -> handle_DEC(m, a, b, c)
    [] IR = CMP -> handle_CMP(m, a, b, c)
    [] IR = AND -> handle_AND(m, a, b, c)
    [] IR = NOT -> handle_NOT(m, a, b, c)
    [] IR = OR -> handle_OR(m, a, b, c)
    [] IR = XOR -> handle_XOR(m, a, b, c)
    [] IR = SHL -> handle_SHL(m, a, b, c)
    [] IR = SHR -> handle_SHR(m, a, b, c)
    [] IR = NOP -> handle_NOP(m, a, b, c)
    [] IR = HLT -> handle_HLT(m, a, b, c)
    [] IR = LDI -> handle_LDI(m, a, b, c)
    [] IR = LD -> handle_LD(m, a, b, c)
    [] IR = ST -> handle_ST(m, a, b, c)
    [] IR = PUSH -> handle_PUSH(m, a, b, c)
    [] IR = POP -> handle_POP(m, a, b, c)
    [] IR = PRN -> handle_PRN(m, a, b, c)
    [] IR = PRA -> handle_PRA(m, a, b, c)
    [] IR = CALL -> handle_CALL(m, a, b, c)
    [] IR = RET -> handle_RET(m, a, b, c)
    [] IR = JMP -> handle_JMP(m, a, b, c)
    [] IR = JEQ -> handle_JEQ(m, a, b, c)
    [] IR = JNE -> handle_JNE(m, a, b, c)
    [] OTHER -> Raise(m, "KeyError")

(***************************************************************************)
(* The decoder of run().                                                   *)
(***************************************************************************)


\* ((IR & 0b11000000) >> 6) + 1
inst_len(IR) == ((IR \div 64) % 4) + 1

\* The decoder reading bit 0b100000 instead of bit 0b10000.
incr_pc_wrong_bit(IR) == (IR \div 32) % 2

\* (IR & 0b10000) >> 4
incr_pc(IR) == (IR \div 16) % 2

(***************************************************************************)
(* Programs given to the loader.  Every byte is what int(token, 2) yields  *)
(* for a line of the program file: a natural number.                       *)
(***************************************************************************)
RECURSIVE Flatten(_)
Flatten(ss) == IF ss = <<>> THEN <<>> ELSE Head(ss) \o Flatten(Tail(ss))

\* The instructions that generated programs are made of.
Pool ==
  { <<LDI, 0, 1>>, <<LDI, 0, 200>>, <<LDI, 0, 252>>, <<LDI, 1, 5>>, <<LDI, 7, 0>>,
    <<LDI, 8, 1>>, <<ADD, 0, 0>>, <<ADD, 0, 1>>, <<MUL, 0, 0>>, <<MOD, 0, 1>>,
    <<CMP, 0, 1>>, <<CMP, 1, 0>>, <<NOT, 0>>, <<AND, 0, 1>>, <<OR, 0, 1>>,
    <<XOR, 0, 1>>, <<SHL, 0>>, <<SHR, 0>>, <<ADDI, 0, 1, 3>>, <<PUSH, 0>>,
    <<POP, 0>>, <<POP, 7>>, <<CALL, 1>>, <<RET>>, <<JMP, 0>>, <<JEQ, 1>>,
    <<JNE, 1>>, <<PRN, 0>>, <<HLT>>, <<NOP>>, <<SUB, 0, 1>>, <<LD, 0, 1>>,
    <<255>> }

Generated ==
  UNION { { Flatten(ss) : ss \in [1..n -> Pool] } : n \in 0..MaxProg }

StackPointers == {0, 1, 9, 10, 11, 244, 254, 255}

PushPop ==
  { <<LDI, 7, sp, LDI, r, v, PUSH, r, POP, r, HLT>> :
      sp \in StackPointers, r \in 0..7, v \in {0, 7, 70, 200} }

\* LDI R7,sp / LDI R1,d / CALL R1 / HLT / body / RET, with d the address of
\* the body.
CallRet ==
  { <<LDI, 7, sp, LDI, 1, 9, CALL, 1, HLT>> \o body \o <<RET, HLT>> :
      sp \in {1, 11, 12, 244, 255},
      body \in { <<>>, <<PUSH, 0, POP, 0>>, <<LDI, 0, 77>>, <<PUSH, 1>>,
                 <<POP, 2>>, <<LDI, 7, 100>>, <<CALL, 1>> } }

Compare ==
  { <<LDI, 0, x, LDI, 1, y, LDI, 2, t, CMP, 0, 1, CMP, ra, rb, j, 2, HLT>> :
      x \in {0, 3}, y \in {0, 3, 200}, t \in {17, 100, 254}, ra \in {0, 1},
      rb \in {0, 1}, j \in {JEQ, JNE} }

Scenarios ==
  { <<LDI, 0, 5, LDI, 1, 3, ADD, 0, 1, PRN, 0, HLT>>,
    <<LDI, 0, 10, PUSH, 0, LDI, 0, 0, POP, 0, PRN, 0, HLT>>,
    <<LDI, 0, 5, LDI, 1, 0, MOD, 0, 1, HLT>>,
    <<LDI, 0, 5, LDI, 1, 3, MOD, 0, 1, PRN, 0, HLT>>,
    <<LDI, 0, 248, JMP, 0>>,
    <<LDI, 0, 251, JMP, 0>>,
    <<LDI, 0, 255, JMP, 0>>,
    <<LDI, 0, 5, CMP, 0, 1, 193, HLT>>,
    <<LDI, 1, 5, PUSH, 1, 24, HLT>>,
    <<LDI, 0, 100, LDI, 1, 42, ST, 0, 1, LD, 2, 0, HLT>> }

\* LDI R0,v1 / LDI R1,v2 / n PUSH / n POP / HLT: the registers pushed are
\* R0, R1 and (n = 3) R2, which holds 0; the registers popped into are R3,
\* R4 and R5.
Lifo ==
  { <<LDI, 0, v1, LDI, 1, v2, PUSH, 0, PUSH, 1>> \o mid \o <<HLT>> :
      v1 \in {5, 200}, v2 \in {9, 200},
      mid \in { <<POP, 3, POP, 4>>, <<PUSH, 2, POP, 3, POP, 4, POP, 5>>,
                <<POP, 3, PUSH, 0, POP, 4, POP, 5>> } }

Programs == Generated \cup PushPop \cup CallRet \cup Compare \cup Scenarios \cup Lifo

(***************************************************************************)
(* CPU.load: the bytes of the program go to ram[0], ram[1], ...            *)
(***************************************************************************)
load(prog) == [i \in 0..(RamSize - 1) |-> IF i < Len(prog) THEN prog[i + 1] ELSE 0]

(***************************************************************************)
(* State.                                                                  *)
(***************************************************************************)
VARIABLES
  ram,      \* self.ram
  reg,      \* self.reg
  flags,    \* self.flags
  pc,       \* self.pc
  running,  \* self.running
  out,      \* the lines printed so far
  proc,     \* where the process is: "ready" (constructed and loaded),
            \* "loop" (inside run), "returned" (run returned), "exited"
            \* (sys.exit() after the except of run), "traceback" (an
            \* exception left run)
  exc,      \* the exception the last iteration raised, "none" if none
  acc,      \* the list indices the last iteration used on self.ram
  cycles,   \* number of iterations of the loop so far
  prev,     \* the iteration before the last one: what it fetched and the
            \* registers it started from
  last,     \* the same for the last iteration
  call,     \* the last CALL that was dispatched
  status,   \* the exit status of the process, StillRunning while it runs
  lifo      \* the run of PUSH instructions followed by POP instructions
            \* that the last iterations form: the stack pointer it
            \* started from, the values pushed, the values popped

vars == <<ram, reg, flags, pc, running, out, proc, exc, acc, cycles, prev, last, call,
          status, lifo>>

NoCycle == [kind |-> "none", IR |-> 0, a |-> 0, b |-> 0, pc |-> 0,
            reg |-> [i \in 0..(NumRegs - 1) |-> 0]]

StillRunning == 0 - 1

\* sys.exit() without an argument: the exit status of the process is 0.
ExitNoArgument == 0

\* An exception that nothing catches: Python prints the traceback and the
\* exit status is 1.
ExitUncaught == 1

\* The script that called run() comes to its end: the exit status is 0.
ExitNormal == 0

NoRun == [on |-> FALSE, sp0 |-> 0, pushed |-> <<>>, popped |-> <<>>]

NoCall == [made |-> FALSE, p |-> 0, sp0 |-> 0, sp1 |-> 0, cell |-> 0]

Init ==
  /\ \E prog \in Programs : ram = load(prog)
  /\ reg = [i \in 0..(NumRegs - 1) |-> IF i = stack_pointer THEN InitialSP ELSE 0]
  /\ flags = [i \in 0..(NumFlags - 1) |-> 0]
  /\ pc = 0
  /\ running = FALSE
  /\ out = <<>>
  /\ proc = "ready"
  /\ exc = "none"
  /\ acc = {}
  /\ cycles = 0
  /\ prev = NoCycle
  /\ last = NoCycle
  /\ call = NoCall
  /\ status = StillRunning
  /\ lifo = NoRun

(***************************************************************************)
(* CPU.run                                                                 *)
(***************************************************************************)
\* The four reads of one iteration, in order: ram_read(pc), ram_read(pc + 1),
\* ram_read(pc + 2), ram_read(pc + 3).  They are outside the try.
FetchOK == \A k \in 0..3 : RamOK(pc + k)

\* The indices the reads use, up to the first one that raises.
FetchAddrs == { pc + k : k \in { j \in 0..3 : \A i \in 0..(j - 1) : RamOK(pc + i) } }

ram_read(address) == ram[M(address)]

\* The machine as the handler finds it.
Fetched ==
  [ram |-> ram, reg |-> reg, flags |-> flags, pc |-> pc, running |-> running,
   out |-> out, exc |-> "none", acc |-> FetchAddrs]

\* self.branchtable[IR](operand_a, operand_b, operand_c)
Dispatched ==
  branchtable(ram_read(pc), Fetched, ram_read(pc + 1), ram_read(pc + 2), ram_read(pc + 3))

ThisCycle(kind) ==
  [kind |-> kind, IR |-> ram_read(pc), a |-> ram_read(pc + 1), b |-> ram_read(pc + 2),
   pc |-> pc, reg |-> reg]

\* Only states whose values are within the model's bound are explored.
Explored(m) ==
  /\ m.pc >= 0 - MaxVal /\ m.pc <= MaxVal
  /\ \A i \in 0..(NumRegs - 1) : m.reg[i] >= 0 - MaxVal /\ m.reg[i] <= MaxVal

\* What a dispatched CALL leaves behind: where it was, the stack pointer
\* before and after, and the cell it pushed.
CallMade(m) ==
  [made |-> TRUE, p |-> pc, sp0 |-> reg[stack_pointer], sp1 |-> m.reg[stack_pointer],
   cell |-> m.ram[M(m.reg[stack_pointer])]]

\* The run of PUSH and POP instructions after a dispatched instruction IR
\* with operand a that left the machine m: a PUSH starts a run or adds the
\* value of the register it names to the values pushed; a POP into a
\* register other than the stack pointer, while values of the run are still
\* on the stack, adds the value it put into the register to the values
\* popped; anything else ends the run.
RunAfter(IR, a, m) ==
  IF IR = PUSH
  THEN IF lifo.on /\ lifo.popped = <<>>
       THEN [lifo EXCEPT !.pushed = Append(@, m.reg[R(a)])]
       ELSE [on |-> TRUE, sp0 |-> reg[stack_pointer], pushed |-> <<m.reg[R(a)]>>,
             popped |-> <<>>]
  ELSE IF /\ IR = POP /\ lifo.on /\ R(a) # stack_pointer
          /\ Len(lifo.popped) < Len(lifo.pushed)
       THEN [lifo EXCEPT !.popped = Append(@, m.reg[R(a)])]
       ELSE NoRun

\* run() is called: self.running = True.
Start ==
  /\ proc = "ready"
  /\ proc' = "loop"
  /\ running' = TRUE
  /\ UNCHANGED <<ram, reg, flags, pc, out, exc, acc, cycles, prev, last, call, status,
               lifo>>

\* An iteration whose reads of the opcode and the operands raise IndexError:
\* nothing catches it, and it leaves run().
FetchError ==
  /\ proc = "loop" /\ running /\ cycles < MaxCycles
  /\ ~FetchOK
  /\ proc' = "traceback"
  /\ exc' = "IndexError"
  /\ acc' = FetchAddrs
  /\ cycles' = cycles + 1
  /\ prev' = last
  /\ last' = [kind |-> "traceback", IR |-> 0, a |-> 0, b |-> 0, pc |-> pc, reg |-> reg]
  /\ status' = ExitUncaught
  /\ lifo' = NoRun
  /\ UNCHANGED <<ram, reg, flags, pc, running, out, call>>

\* An iteration whose dispatch raises (no handler for the opcode, or the
\* handler raises): the except prints "Invalid instruction" with bin(IR)
\* and calls sys.exit().  What the handler did before it raised stays done.
Fatal ==
  /\ proc = "loop" /\ running /\ cycles < MaxCycles
  /\ FetchOK
  /\ LET m == Dispatched
     IN /\ m.exc # "none"
        /\ Explored(m)
        /\ ram' = m.ram
        /\ reg' = m.reg
        /\ flags' = m.flags
        /\ pc' = m.pc
        /\ running' = m.running
        /\ out' = Append(m.out, Line("Invalid", ram_read(pc), bin(ram_read(pc))))
        /\ exc' = m.exc
        /\ acc' = m.acc
  /\ proc' = "exited"
  /\ cycles' = cycles + 1
  /\ prev' = last
  /\ last' = ThisCycle("fatal")
  /\ status' = ExitNoArgument
  /\ lifo' = NoRun
  /\ UNCHANGED call

\* An iteration whose handler returns: pc advances by the decoded length
\* unless the opcode has the 0b10000 bit.
Step ==
  /\ proc = "loop" /\ running /\ cycles < MaxCycles
  /\ FetchOK
  /\ LET IR == ram_read(pc)
         m == Dispatched
         m1 == IF incr_pc(IR) = 1 THEN m ELSE [m EXCEPT !.pc = @ + inst_len(IR)]
     IN /\ m.exc = "none"
        /\ Explored(m1)
        /\ ram' = m1.ram
        /\ reg' = m1.reg
        /\ flags' = m1.flags
        /\ pc' = m1.pc
        /\ running' = m1.running
        /\ out' = m1.out
        /\ exc' = m1.exc
        /\ acc' = m1.acc
        /\ call' = IF IR = CALL THEN CallMade(m1) ELSE call
        /\ lifo' = RunAfter(IR, ram_read(pc + 1), m1)
  /\ cycles' = cycles + 1
  /\ prev' = last
  /\ last' = ThisCycle("step")
  /\ UNCHANGED <<proc, status>>

\* The while test finds self.running false: run() returns.
Return ==
  /\ proc = "loop" /\ ~running
  /\ proc' = "returned"
  /\ status' = ExitNormal
  /\ UNCHANGED <<ram, reg, flags, pc, running, out, exc, acc, cycles, prev, last, call,
               lifo>>

Next == Start \/ FetchError \/ Fatal \/ Step \/ Return

Spec == Init /\ [][Next]_vars

(***************************************************************************)
(* Properties.                                                             *)
(***************************************************************************)
SelfAdvancing == {CALL, RET, JMP, JEQ, JNE}

\* This step is an iteration of the loop whose handler returned.
HandledStep == cycles' = cycles + 1 /\ last'.kind = "step"

ByteRange == 0..255

\* C1: in every iteration that dispatches a handled opcode without a fatal
\* error, pc afterwards is pc before plus ((opcode >> 6) & 0b11) + 1 unless
\* the opcode is CALL, RET, JMP, JEQ or JNE; for these five the loop adds
\* nothing and pc is the value the handler wrote: the register named by the
\* operand for CALL and JMP (and for a taken JEQ or JNE), the popped cell
\* for RET, pc + 2 for a JEQ or JNE that is not taken.
C1_PcAfterCycle ==
  [][ HandledStep =>
        LET IR == ram[M(pc)]
            a == ram[M(pc + 1)]
        IN CASE IR = CALL -> pc' = reg'[R(a)]
             [] IR = JMP -> pc' = reg[R(a)]
             [] IR = RET -> pc' = ram[M(reg[stack_pointer])]
             [] IR = JEQ -> pc' = IF flags[flag_equal] = 1 THEN reg[R(a)] ELSE pc + 2
             [] IR = JNE -> pc' = IF flags[flag_equal] = 0 THEN reg[R(a)] ELSE pc + 2
             [] OTHER -> pc' = pc + ((IR \div 64) % 4) + 1 ]_vars

\* Reached for C1: a jump that went elsewhere than the next instruction,
\* right after an instruction that advanced pc by its length.
C1_Witness ==
  /\ prev.kind = "step" /\ prev.IR \notin SelfAdvancing
  /\ last.kind = "step" /\ last.IR \in SelfAdvancing
  /\ last.pc = prev.pc + 3
  /\ pc # last.pc + 2

\* C2: an executed CMP a,b leaves exactly one of the flags equal, less-than,
\* greater-than set, the one that matches the order of reg[a] and reg[b],
\* also when earlier CMP instructions have run.
C2_CmpSetsExactlyOne ==
  (last.kind = "step" /\ last.IR = CMP) =>
     LET x == last.reg[R(last.a)]
         y == last.reg[R(last.b)]
     IN /\ flags[flag_equal] = IF x = y THEN 1 ELSE 0
        /\ flags[flag_lt] = IF x < y THEN 1 ELSE 0
        /\ flags[flag_gt] = IF x > y THEN 1 ELSE 0

\* C3: registers stay within 0..255: an executed instruction other than NOT
\* that starts with every register and every memory cell in 0..255 ends with
\* every register in 0..255.
C3_RegistersAreBytes ==
  [][ ( /\ HandledStep
        /\ ram[M(pc)] # NOT
        /\ \A i \in 0..(NumRegs - 1) : reg[i] \in ByteRange
        /\ \A i \in 0..(RamSize - 1) : ram[i] \in ByteRange )
      => \A i \in 0..(NumRegs - 1) : reg'[i] \in ByteRange ]_vars

\* C4: PUSH r immediately followed by POP r, r in 0..7, both executed
\* without a fatal error, leaves reg[r] and the stack pointer as they were
\* before the PUSH.
C4_PushPopInverse ==
  ( /\ prev.kind = "step" /\ prev.IR = PUSH
    /\ last.kind = "step" /\ last.IR = POP
    /\ last.a = prev.a /\ prev.a \in 0..7 )
  => /\ reg[prev.a] = prev.reg[prev.a]
     /\ reg[stack_pointer] = prev.reg[stack_pointer]

\* Reached for C4: the pair executed with a non-zero value in the register
\* and the stack pointer at 0, so that the cell used is ram[-1].
C4_Witness ==
  /\ prev.kind = "step" /\ prev.IR = PUSH
  /\ last.kind = "step" /\ last.IR = POP
  /\ last.a = prev.a /\ prev.a \in 0..6
  /\ prev.reg[prev.a] = 200
  /\ prev.reg[stack_pointer] = 0

\* C5: when a RET executes with the stack pointer and the cell that the
\* last CALL pushed as that CALL left them, pc afterwards is the address of
\* the CALL plus 2 and the stack pointer is what it was before the CALL.
C5_CallRetRoundTrip ==
  ( /\ call.made
    /\ last.kind = "step" /\ last.IR = RET
    /\ last.reg[stack_pointer] = call.sp1
    /\ ram[M(call.sp1)] = call.cell )
  => /\ pc = call.p + 2
     /\ reg[stack_pointer] = call.sp0

\* Reached for C5: a RET that returns from a subroutine which pushed and
\* popped in between.
C5_Witness ==
  /\ call.made
  /\ last.kind = "step" /\ last.IR = RET
  /\ prev.kind = "step" /\ prev.IR = POP
  /\ last.reg[stack_pointer] = call.sp1
  /\ ram[M(call.sp1)] = call.cell
  /\ pc = call.p + 2

\* C6: the equal flag is 0 or 1; JEQ r jumps (pc = reg[r]) exactly when it
\* is 1 and JNE r exactly when it is 0, and the one that does not jump
\* leaves pc at its own address plus 2.
C6_JeqJneExclusive ==
  (last.kind = "step" /\ last.IR \in {JEQ, JNE}) =>
     LET eq == flags[flag_equal]
         taken == IF last.IR = JEQ THEN eq = 1 ELSE eq = 0
     IN /\ eq \in {0, 1}
        /\ pc = IF taken THEN last.reg[R(last.a)] ELSE last.pc + 2

\* Reached for C6: a JNE that was not taken although its target differs
\* from the next instruction.
C6_Witness ==
  /\ last.kind = "step" /\ last.IR = JNE
  /\ flags[flag_equal] = 1
  /\ pc = last.pc + 2
  /\ last.reg[R(last.a)] # pc

\* C7: pc is within 0..254 in every reachable state.
C7_PcInMemory == pc \in 0..(RamSize - 1)

\* C8: every index an iteration uses on the memory is within 0..254.
C8_AccessInMemory == acc \subseteq 0..(RamSize - 1)

\* C9: the process goes ready -> loop -> stopped; a dispatched HLT clears
\* running, and from then on nothing is fetched or printed and registers,
\* memory, flags and pc stay as they are: all that happens is that run()
\* returns.
C9_HaltedIsTerminal ==
  [][ /\ proc' # proc =>
           \/ proc = "ready" /\ proc' = "loop"
           \/ proc = "loop" /\ proc' \in {"returned", "exited", "traceback"}
      /\ (HandledStep /\ last'.IR = HLT) => ~running'
      /\ (proc # "ready" /\ ~running) =>
           /\ UNCHANGED <<ram, reg, flags, pc, out, cycles, acc, last>>
           /\ proc' = "returned" ]_vars

\* Reached for C9: run() has returned after a HLT that was not the first
\* instruction.
C9_Witness ==
  /\ proc = "returned" /\ ~running
  /\ last.kind = "step" /\ last.IR = HLT
  /\ out # <<>>

\* C10: the loop stops only after a dispatched HLT, or by the fatal error of
\* an opcode without handler, or by the fatal error of MOD with a zero
\* divisor.
C10_StopsOnlyByHltOrFatal ==
  proc \in {"returned", "exited", "traceback"} =>
     \/ proc = "returned" /\ last.kind = "step" /\ last.IR = HLT
     \/ proc = "exited" /\ last.IR \notin Opcodes
     \/ /\ proc = "exited" /\ last.IR = MOD
        /\ RegOK(last.b) /\ last.reg[R(last.b)] = 0

\* The number that a text "0b" followed by binary digits denotes, -1 for
\* any other text.
RECURSIVE BitsValue(_)
BitsValue(t) ==
  IF t = <<>> THEN 0
  ELSE 2 * BitsValue(SubSeq(t, 1, Len(t) - 1)) + (IF t[Len(t)] = "1" THEN 1 ELSE 0)

BinaryValue(t) ==
  IF Len(t) >= 3 /\ t[1] = "0" /\ t[2] = "b" /\ \A i \in 3..Len(t) : t[i] \in {"0", "1"}
  THEN BitsValue(SubSeq(t, 3, Len(t)))
  ELSE 0 - 1

\* This step is an iteration of the loop that fetched its opcode and its
\* operands.
FetchedStep == cycles' = cycles + 1 /\ last'.kind \in {"step", "fatal"}

\* C11: an iteration whose opcode has no entry in the dispatch table prints
\* one line, the diagnostic with that opcode in binary, and ends the process
\* in the same iteration with pc, registers, memory and flags as they were;
\* after the process has ended nothing executes.
C11_UnknownOpcodeStops ==
  [][ /\ (FetchedStep /\ ram[M(pc)] \notin Opcodes) =>
           /\ proc' = "exited"
           /\ UNCHANGED <<ram, reg, flags, pc>>
           /\ Len(out') = Len(out) + 1
           /\ SubSeq(out', 1, Len(out)) = out
           /\ out'[Len(out')].kind = "Invalid"
           /\ BinaryValue(out'[Len(out')].text) = ram[M(pc)]
      /\ proc = "exited" => UNCHANGED <<ram, reg, flags, pc, out, cycles, proc>> ]_vars

\* Reached for C11: the process ended on the opcode 0b11000001, which has no
\* handler, after instructions that changed a register and a flag.
C11_Witness ==
  /\ proc = "exited"
  /\ last.kind = "fatal" /\ last.IR = 193
  /\ reg[0] = 5 /\ flags[flag_gt] = 1
  /\ out = <<Line("Invalid", 193, <<"0", "b", "1", "1", "0", "0", "0", "0", "0", "1">>)>>


\* C12: the line "Invalid instruction ..." is printed exactly for an opcode
\* without handler: every such line names an opcode that is not in the
\* dispatch table, and every fetched opcode that is not in the table ends
\* with such a line.
C12_InvalidOnlyWithoutHandler ==
  /\ \A i \in 1..Len(out) : out[i].kind = "Invalid" => out[i].num \notin Opcodes
  /\ (last.kind = "fatal" /\ last.IR \notin Opcodes) =>
        (out # <<>> /\ out[Len(out)].kind = "Invalid")

\* C13: a MOD a,b whose divisor reg[b] is 0 prints the divide-by-zero
\* diagnostic and ends the process in the same iteration, with registers,
\* memory, flags and pc as they were before the MOD; after the process has
\* ended nothing is fetched or dispatched.
C13_ModByZeroStops ==
  [][ /\ ( /\ FetchedStep
           /\ ram[M(pc)] = MOD
           /\ RegOK(ram[M(pc + 2)])
           /\ reg[R(ram[M(pc + 2)])] = 0 ) =>
           /\ proc' = "exited"
           /\ UNCHANGED <<ram, reg, flags, pc>>
           /\ Len(out') > Len(out)
           /\ SubSeq(out', 1, Len(out)) = out
           /\ out'[Len(out) + 1].kind = "DivideByZero"
      /\ proc = "exited" => UNCHANGED <<ram, reg, flags, pc, out, cycles, last>> ]_vars

\* Reached for C13: LDI R0,5 / LDI R1,0 / MOD R0,R1 / HLT has ended at the
\* MOD, the HLT at address 9 not fetched.
C13_Witness ==
  /\ proc = "exited" /\ running
  /\ last.kind = "fatal" /\ last.IR = MOD /\ last.pc = 6
  /\ ram[9] = HLT
  /\ reg[0] = 5 /\ reg[1] = 0 /\ pc = 6 /\ cycles = 3
  /\ out[1].kind = "DivideByZero"


\* C14: a process that ended by a fatal error (an opcode without handler,
\* or MOD with a zero divisor) has a non-zero exit status; a process that
\* ended because HLT stopped the loop has exit status 0.
C14_FatalExitsNonZero ==
  /\ ( /\ proc = "exited"
       /\ \/ last.IR \notin Opcodes
          \/ last.IR = MOD /\ RegOK(last.b) /\ last.reg[R(last.b)] = 0 )
     => status # 0
  /\ proc = "returned" => status = 0


\* The integer that a decimal text denotes.
DigitOf(ch) == CHOOSE d \in 0..9 : DigitChars[d + 1] = ch

RECURSIVE DigitsValue(_)
DigitsValue(t) ==
  IF t = <<>> THEN 0
  ELSE 10 * DigitsValue(SubSeq(t, 1, Len(t) - 1)) + DigitOf(t[Len(t)])

DecimalValue(t) ==
  IF t # <<>> /\ t[1] = "-" THEN 0 - DigitsValue(Tail(t)) ELSE DigitsValue(t)

AddScenario == <<LDI, 0, 5, LDI, 1, 3, ADD, 0, 1, PRN, 0, HLT>>

\* C15: every executed PRN r appends one line, the decimal text of reg[r],
\* to the output and no other executed instruction prints, so that the
\* output is the values of the PRN instructions in the order they executed;
\* LDI R0,5 / LDI R1,3 / ADD R0,R1 / PRN R0 / HLT run from the initial
\* state ends halted with the single output line 8.
C15_OutputIsPrnValues ==
  [][ /\ (HandledStep /\ ram[M(pc)] = PRN) =>
           /\ Len(out') = Len(out) + 1
           /\ SubSeq(out', 1, Len(out)) = out
           /\ out'[Len(out')].kind = "PRN"
           /\ DecimalValue(out'[Len(out')].text) = reg[R(ram[M(pc + 1)])]
      /\ (HandledStep /\ ram[M(pc)] # PRN) => out' = out
      /\ (ram = load(AddScenario) /\ proc = "loop" /\ proc' # "loop") =>
           /\ proc' = "returned" /\ ~running'
           /\ Len(out') = 1
           /\ out'[1].kind = "PRN" /\ out'[1].text = <<"8">> ]_vars

\* Reached for C15: the program has halted after printing 8.
C15_Witness ==
  /\ ram = load(AddScenario)
  /\ proc = "returned"
  /\ last.kind = "step" /\ last.IR = HLT /\ prev.IR = PRN
  /\ Len(out) = 1 /\ out[1].text = <<"8">> /\ out[1].num = 8


\* C16: an executed ST ra,rb stores reg[rb] into memory[reg[ra]] and an
\* executed LD rd,rs loads memory[reg[rs]] into reg[rd] (register indices in
\* 0..7, the address within the memory); hence ST ra,rb followed by
\* LD rc,ra leaves reg[rb] in reg[rc].
C16_StoreAndLoad ==
  [][ LET IR == ram[M(pc)]
          a == ram[M(pc + 1)]
          b == ram[M(pc + 2)]
      IN (HandledStep /\ a \in 0..7 /\ b \in 0..7) =>
           /\ (IR = ST /\ reg[a] \in 0..(RamSize - 1)) => ram'[reg[a]] = reg[b]
           /\ (IR = LD /\ reg[b] \in 0..(RamSize - 1)) => reg'[a] = ram[reg[b]] ]_vars


\* x & y, x | y and x ^ y for naturals x, y.
RECURSIVE BitAnd(_, _)
BitAnd(x, y) ==
  IF x = 0 \/ y = 0 THEN 0
  ELSE 2 * BitAnd(x \div 2, y \div 2) + (IF x % 2 = 1 /\ y % 2 = 1 THEN 1 ELSE 0)

RECURSIVE BitOr(_, _)
BitOr(x, y) ==
  IF x = 0 THEN y ELSE IF y = 0 THEN x
  ELSE 2 * BitOr(x \div 2, y \div 2) + (IF x % 2 = 1 \/ y % 2 = 1 THEN 1 ELSE 0)

RECURSIVE BitXor(_, _)
BitXor(x, y) ==
  IF x = 0 THEN y ELSE IF y = 0 THEN x
  ELSE 2 * BitXor(x \div 2, y \div 2) + (IF x % 2 # y % 2 THEN 1 ELSE 0)

\* C17: an executed AND a,b, OR a,b, XOR a,b (register indices in 0..7,
\* register values natural numbers) sets reg[a] to reg[a] & reg[b],
\* reg[a] | reg[b], reg[a] ^ reg[b] and leaves every other register as it
\* was.
C17_BitwiseUsesBothOperands ==
  [][ LET IR == ram[M(pc)]
          a == ram[M(pc + 1)]
          b == ram[M(pc + 2)]
      IN ( /\ HandledStep /\ a \in 0..7 /\ b \in 0..7
           /\ reg[a] >= 0 /\ reg[b] >= 0 ) =>
           /\ IR = AND => reg' = [reg EXCEPT ![a] = BitAnd(reg[a], reg[b])]
           /\ IR = OR => reg' = [reg EXCEPT ![a] = BitOr(reg[a], reg[b])]
           /\ IR = XOR => reg' = [reg EXCEPT ![a] = BitXor(reg[a], reg[b])] ]_vars


\* C18: all flags are 0 when the machine is constructed; a step that
\* changes the flags is an executed CMP, and it changes no slot other than
\* equal, less-than and greater-than.
C18_OnlyCmpWritesFlags ==
  [][ /\ proc = "ready" => \A i \in 0..(NumFlags - 1) : flags[i] = 0
      /\ flags' # flags =>
           /\ HandledStep
           /\ ram[M(pc)] = CMP
           /\ \A i \in 0..(NumFlags - 1) :
                i \notin {5, 6, 7} => flags'[i] = flags[i] ]_vars

\* Reached for C18: a JNE has executed after two CMP that set less-than and
\* then equal, and the flags are as the CMPs left them.
C18_Witness ==
  /\ last.kind = "step" /\ last.IR = JNE
  /\ prev.kind = "step" /\ prev.IR = CMP
  /\ flags[flag_equal] = 1 /\ flags[flag_lt] = 1 /\ flags[flag_gt] = 0
  /\ \A i \in 0..4 : flags[i] = 0


\* C19: an executed RET sets pc to memory[stack pointer], adds 1 to the
\* stack pointer and leaves the registers 0..6, the memory and the flags as
\* they were.
C19_RetKeepsRegisters ==
  [][ (HandledStep /\ ram[M(pc)] = RET) =>
        /\ pc' = ram[M(reg[stack_pointer])]
        /\ reg'[stack_pointer] = reg[stack_pointer] + 1
        /\ \A i \in 0..6 : reg'[i] = reg[i]
        /\ ram' = ram
        /\ flags' = flags ]_vars


\* C20: in a run of n PUSH followed by POPs into registers other than
\* register 7 that starts with the stack pointer at 0xF4, the k-th POP
\* returns the value of the (n + 1 - k)-th PUSH, the stack pointer is its
\* starting value minus the number of PUSH plus the number of POP (back at
\* the start after n POP), and the value of the k-th PUSH that is still on
\* the stack is in the cell 0xF4 - k.
C20_StackIsLifo ==
  (lifo.on /\ lifo.sp0 = 244) =>
     LET n == Len(lifo.pushed)
         k == Len(lifo.popped)
     IN /\ \A i \in 1..k : lifo.popped[i] = lifo.pushed[n + 1 - i]
        /\ reg[stack_pointer] = 244 - n + k
        /\ \A i \in 1..(n - k) : ram[244 - i] = lifo.pushed[i]

\* Reached for C20: three different values pushed from 0xF4 and popped
\* again.
C20_Witness ==
  /\ lifo.on /\ lifo.sp0 = 244
  /\ Len(lifo.pushed) = 3 /\ Len(lifo.popped) = 3
  /\ lifo.pushed[1] # lifo.pushed[2] /\ lifo.pushed[2] # lifo.pushed[3]
  /\ lifo.pushed[1] # lifo.pushed[3]
  /\ reg[3] = lifo.pushed[3] /\ reg[4] = lifo.pushed[2] /\ reg[5] = lifo.pushed[1]
  /\ reg[stack_pointer] = 244

====
